---- MODULE Spec2Model ----
(***************************************************************************)
(* Syndra: predicates over graph-rewriting rules, lowered to z3.            *)
(*                                                                         *)
(* Two engines are modelled.                                                *)
(*   - l_to_z3/atomic_predicate.py: an AtomicPredicate owns a z3 Solver,    *)
(*     asserts its own formula lazily and memoises the check result         *)
(*     (specification Spec).                                               *)
(*   - new_engine/predicate.py: Predicate objects on a heap, built by       *)
(*     constructors and lowered by get_predicate/_assert                    *)
(*     (specification SpecPredicate; SpecBoolean is its fragment with       *)
(*     Top, Bottom, And, Or and Not only).                                  *)
(***************************************************************************)
EXTENDS Integers, Sequences, FiniteSets

\* ---------------------------------------------------------------- bounds
MaxCalls == 3
MaxTag == 2
MaxObjs == 3
MaxArity == 2
MaxRules == 2

VARIABLES
    \* l_to_z3/atomic_predicate.py: one AtomicPredicate object
    pc,             \* "new": not constructed; "ready": constructed; "dead": __init__ raised
    cls,            \* the class that was instantiated
    x, y,           \* the constructor's variable arguments (self.x, self.y)
    solver,         \* self.solver: the z3 Solver the object owns
    _asserted_yet,  \* self._asserted_yet
    _status,        \* self._status
    compiles,       \* number of get_predicate() invocations so far
    history,        \* outcome of every check_sat / get_model call so far
    \* new_engine/predicate.py: Predicate objects
    heap,           \* the Predicate objects constructed so far
    next_rule,      \* the global counter behind datatypes.new_rule()
    out             \* outcome of the last constructor or get_predicate call

evaluator_vars == <<pc, cls, x, y, solver, _asserted_yet, _status, compiles, history>>
predicate_vars == <<heap, next_rule, out>>
vars == <<pc, cls, x, y, solver, _asserted_yet, _status, compiles, history,
          heap, next_rule, out>>

None == "None"

(***************************************************************************)
(*                     l_to_z3/atomic_predicate.py                         *)
(***************************************************************************)

\* z3 values a caller can hand to a constructor in a Variable position:
\* Variable.variable(n) (a constructor application with a literal tag),
\* an uninterpreted constant of sort Variable, and something that is no
\* z3 Variable at all.
Variable(n) == [sort |-> "Variable", decl |-> "variable", tag |-> n]
VariableConst == [sort |-> "Variable", decl |-> "const", tag |-> 0]
NotAVariable == [sort |-> "Int", decl |-> "numeral", tag |-> 0]
NoArg == [sort |-> None, decl |-> None, tag |-> 0]
Things == {Variable(n) : n \in 1..MaxTag} \cup {VariableConst, NotAVariable}

NullaryClasses == {"AtomicPredicate", "Top", "Bottom", "Add", "Rem"}
UnaryClasses == {"Labeled", "PreHas", "PostHas"}
BinaryClasses == {"Equal", "PreParent", "PostParent", "DoParent",
                  "PreLink", "PostLink", "DoLink", "DoUnlink"}
\* the classes whose get_predicate reads self.model
ModelClasses == {"PreParent", "PostParent", "DoParent", "PreLink", "PostLink",
                 "DoLink", "DoUnlink", "PreHas", "PostHas"}

\* ensure_variable: TRUE when it returns, FALSE when it raises ValueError.
ensure_variable(thing) == thing.sort = "Variable"

\* z3_accessor(Variable.get_varname, item):
\* get_varname(item).children()[0].children()[0].as_long().
\* item = variable(n) has the numeral n as its only child; a constant has no
\* children and children()[0] raises IndexError.
z3_accessor(item) ==
    IF item.decl = "variable"
    THEN [exc |-> None, val |-> item.tag]
    ELSE [exc |-> "IndexError", val |-> 0]

\* get_predicate of each subclass: the value handed to solver.add, or the
\* exception raised while building it.
\*   Top / Bottom: the Python constants True / False.
\*   Equal: a Python bool, the comparison of the two accessed tags.
\*   Labeled: z3_accessor on label(interpretation(x)) ends in
\*     x.as_long() on a datatype value: AttributeError.
\*   Pre*/Post*/Do*: read self.model, which __init__ never sets (it stores
\*     self.graphactionpair): AttributeError.
\*   AtomicPredicate, Add, Rem: the base method raises NotImplementedError.
get_predicate(c, a, b) ==
    CASE c = "Top" -> [exc |-> None, val |-> TRUE]
      [] c = "Bottom" -> [exc |-> None, val |-> FALSE]
      [] c = "Equal" ->
            LET l == z3_accessor(a)
                r == z3_accessor(b)
            IN  IF l.exc # None THEN [exc |-> l.exc, val |-> FALSE]
                ELSE IF r.exc # None THEN [exc |-> r.exc, val |-> FALSE]
                ELSE [exc |-> None, val |-> (l.val = r.val)]
      [] c = "Labeled" -> [exc |-> "AttributeError", val |-> FALSE]
      [] c \in ModelClasses -> [exc |-> "AttributeError", val |-> FALSE]
      [] OTHER -> [exc |-> "NotImplementedError", val |-> FALSE]

\* Solver.check(): the oracle. Its verdict depends on the graph/action
\* constraints graphactionpair.initialize added and on its own limits, which
\* this module does not see: with False asserted it answers unsat; otherwise
\* any of sat, unsat, unknown; and it may raise. `model` tells whether the
\* solver holds a model afterwards: always after sat, never after unsat, and
\* possibly (a candidate model) after unknown.
Oracle(assertions) ==
    (IF \E i \in DOMAIN assertions : assertions[i] = FALSE
     THEN {[exc |-> None, r |-> "unsat", model |-> FALSE]}
     ELSE {[exc |-> None, r |-> "sat", model |-> TRUE],
           [exc |-> None, r |-> "unsat", model |-> FALSE],
           [exc |-> None, r |-> "unknown", model |-> FALSE],
           [exc |-> None, r |-> "unknown", model |-> TRUE]})
    \cup {[exc |-> "Z3Exception", r |-> None, model |-> FALSE]}

\* The assertions the solver would hold when check() runs in _assert_over.
Pending ==
    LET p == get_predicate(cls, x, y)
    IN  IF p.exc = None THEN Append(solver.assertions, p.val) ELSE solver.assertions

\* _assert_over without its last line: the flag is never set.
_assert_over_flag_unset(o) ==
    LET p == get_predicate(cls, x, y)
        added == [solver EXCEPT !.assertions = Append(@, p.val)]
    IN  IF p.exc # None
        THEN [solver |-> solver, _status |-> _status,
              _asserted_yet |-> _asserted_yet, exc |-> p.exc]
        ELSE IF o.exc # None
        THEN [solver |-> [added EXCEPT !.checks = @ + 1, !.model = FALSE],
              _status |-> _status, _asserted_yet |-> _asserted_yet, exc |-> o.exc]
        ELSE [solver |-> [added EXCEPT !.checks = @ + 1, !.model = o.model],
              _status |-> o.r, _asserted_yet |-> _asserted_yet, exc |-> None]

\* AtomicPredicate._assert_over with the oracle answering o: the object's
\* fields afterwards and the exception that escaped, if any.
_assert_over(o) ==
    LET p == get_predicate(cls, x, y)
        added == [solver EXCEPT !.assertions = Append(@, p.val)]
    IN  IF p.exc # None
        THEN [solver |-> solver, _status |-> _status,
              _asserted_yet |-> _asserted_yet, exc |-> p.exc]
        ELSE IF o.exc # None
        THEN [solver |-> [added EXCEPT !.checks = @ + 1, !.model = FALSE],
              _status |-> _status, _asserted_yet |-> _asserted_yet, exc |-> o.exc]
        ELSE [solver |-> [added EXCEPT !.checks = @ + 1, !.model = o.model],
              _status |-> o.r, _asserted_yet |-> TRUE, exc |-> None]

\* The object's fields when a call finds _asserted_yet set and skips _assert_over.
Memoised ==
    [solver |-> solver, _status |-> _status, _asserted_yet |-> _asserted_yet,
     exc |-> None]

\* AtomicPredicate.__init__: Solver(), the fields, graphactionpair.initialize.
AtomicPredicate_init(c) ==
    /\ cls' = c
    /\ solver' = [created |-> TRUE, initialized |-> TRUE, assertions |-> <<>>,
                  checks |-> 0, model |-> FALSE]
    /\ _asserted_yet' = FALSE
    /\ _status' = None

\* Top, Bottom, Add, Rem and the base class: the inherited __init__.
ConstructNullary ==
    /\ pc = "new"
    /\ \E c \in NullaryClasses :
         /\ AtomicPredicate_init(c)
         /\ x' = NoArg /\ y' = NoArg
         /\ pc' = "ready"
    /\ UNCHANGED <<compiles, history>>
    /\ UNCHANGED predicate_vars

\* Labeled(x, label, gap), PreHas(x, gap), PostHas(x, gap): the inherited
\* __init__ first, then ensure_variable(x).
ConstructUnary ==
    /\ pc = "new"
    /\ \E c \in UnaryClasses, a \in Things :
         /\ AtomicPredicate_init(c)
         /\ IF ensure_variable(a)
            THEN x' = a /\ y' = NoArg /\ pc' = "ready"
            ELSE x' = NoArg /\ y' = NoArg /\ pc' = "dead"
    /\ UNCHANGED <<compiles, history>>
    /\ UNCHANGED predicate_vars

\* Equal(x, y, gap) and the parent/link classes: the inherited __init__
\* first, then ensure_variable(x), ensure_variable(y).
ConstructBinary ==
    /\ pc = "new"
    /\ \E c \in BinaryClasses, a \in Things, b \in Things :
         /\ AtomicPredicate_init(c)
         /\ IF ensure_variable(a) /\ ensure_variable(b)
            THEN x' = a /\ y' = b /\ pc' = "ready"
            ELSE x' = NoArg /\ y' = NoArg /\ pc' = "dead"
    /\ UNCHANGED <<compiles, history>>
    /\ UNCHANGED predicate_vars

\* AtomicPredicate.check_sat
check_sat ==
    /\ pc = "ready"
    /\ Len(history) < MaxCalls
    /\ \E o \in Oracle(Pending) :
         LET lazy == ~_asserted_yet
             s == IF lazy THEN _assert_over(o) ELSE Memoised
         IN  /\ solver' = s.solver
             /\ _status' = s._status
             /\ _asserted_yet' = s._asserted_yet
             /\ compiles' = IF lazy THEN compiles + 1 ELSE compiles
             /\ history' = Append(history,
                    [op |-> "check_sat", lazy |-> lazy, exc |-> s.exc,
                     val |-> IF s.exc = None THEN s._status ELSE None,
                     status |-> s._status])
    /\ UNCHANGED <<pc, cls, x, y>>
    /\ UNCHANGED predicate_vars

\* get_model without its lazy _assert_over: it only reads solver.model().
get_model_no_lazy_assert ==
    /\ pc = "ready"
    /\ Len(history) < MaxCalls
    /\ LET exc == IF solver.model THEN None ELSE "ModelNotAvailable"
       IN  history' = Append(history,
                [op |-> "get_model", lazy |-> ~_asserted_yet, exc |-> exc,
                 val |-> IF exc = None THEN "model" ELSE None,
                 status |-> _status])
    /\ UNCHANGED <<pc, cls, x, y, solver, _status, _asserted_yet, compiles>>
    /\ UNCHANGED predicate_vars

\* AtomicPredicate.get_model: solver.model() raises Z3Exception("model is
\* not available") when the solver holds no model.
get_model ==
    /\ pc = "ready"
    /\ Len(history) < MaxCalls
    /\ \E o \in Oracle(Pending) :
         LET lazy == ~_asserted_yet
             s == IF lazy THEN _assert_over(o) ELSE Memoised
             exc == IF s.exc # None THEN s.exc
                    ELSE IF s.solver.model THEN None ELSE "ModelNotAvailable"
         IN  /\ solver' = s.solver
             /\ _status' = s._status
             /\ _asserted_yet' = s._asserted_yet
             /\ compiles' = IF lazy THEN compiles + 1 ELSE compiles
             /\ history' = Append(history,
                    [op |-> "get_model", lazy |-> lazy, exc |-> exc,
                     val |-> IF exc = None THEN "model" ELSE None,
                     status |-> s._status])
    /\ UNCHANGED <<pc, cls, x, y>>
    /\ UNCHANGED predicate_vars

Init ==
    /\ pc = "new"
    /\ cls = None
    /\ x = NoArg /\ y = NoArg
    /\ solver = [created |-> FALSE, initialized |-> FALSE, assertions |-> <<>>,
                 checks |-> 0, model |-> FALSE]
    /\ _asserted_yet = FALSE
    /\ _status = None
    /\ compiles = 0
    /\ history = <<>>
    /\ heap = <<>>
    /\ next_rule = 1
    /\ out = [op |-> None, root |-> 0, exc |-> None, val |-> [op |-> None, args |-> <<>>, sym |-> 0],
              rules |-> <<>>, bad |-> FALSE]

Next ==
    \/ ConstructNullary
    \/ ConstructUnary
    \/ ConstructBinary
    \/ check_sat
    \/ get_model

Spec == Init /\ [][Next]_vars

(***************************************************************************)
(*                       new_engine/predicate.py                           *)
(***************************************************************************)

\* Python values a caller can pass where the constructors take an object:
\* a Predicate object on the heap, a fresh Predicate object returned by a
\* rule_function (at = 0: never stored), an int, and a graph structure: an
\* object that is no Predicate and has a one-argument _assert(graph), like
\* `kinase` in ModelHasRule's docstring.
Ref(i) == [kind |-> "Predicate", at |-> i]
AnInt == [kind |-> "int", at |-> 0]
AStructure == [kind |-> "Structure", at |-> 0]
NoValue == [kind |-> None, at |-> 0]
\* what callers pass to And, Or and Not, and as the structure of a graph scope
Arguments(h) == {Ref(i) : i \in 1..Len(h)} \cup {AnInt}
Structures(h) == {Ref(i) : i \in 1..Len(h)} \cup {AnInt, AStructure}
SeqsUpTo(S, n) == UNION {[1..k -> S] : k \in 0..n}

\* isinstance(thing, Predicate)
isinstance_Predicate(thing) == thing.kind = "Predicate"

\* z3 expressions: an operator, its arguments and, for a Rule constant, its number.
Expr(op, args) == [op |-> op, args |-> args, sym |-> 0]
NoExpr == Expr(None, <<>>)
BoolVal(b) == Expr(IF b THEN "true" ELSE "false", <<>>)
z3_And(args) == Expr("and", args)
z3_Or(args) == Expr("or", args)
z3_Not(a) == Expr("not", <<a>>)
z3_Exists(v, body) == Expr("exists", <<v, body>>)
RuleConst(n) == [op |-> "rule", args |-> <<>>, sym |-> n]

\* The binding context get_predicate receives:
\* model_variable, string_interner, node_interner.
Context == <<Expr("model", <<>>), Expr("string_interner", <<>>),
             Expr("node_interner", <<>>)>>
\* a Rule the caller made before building predicates
CallerRule == [op |-> "rule", args |-> <<>>, sym |-> 0]

\* The rule functions handed to ModelHasRule, by what they return for a rule r.
RuleFunctions == {"lambda r: Top()", "lambda r: PregraphHas(r, s)", "lambda r: s"}
rule_function_apply(f, r) ==
    IF f = "lambda r: s" THEN AStructure ELSE Ref(0)

\* A Predicate object: its class and the fields its __init__ sets.
Object(c, preds, pred, f, rule, structure) ==
    [cls |-> c, preds |-> preds, pred |-> pred, rule_function |-> f,
     rule_variable |-> NoExpr, rule |-> rule, structure |-> structure]

\* datatypes.new_rule(): a Rule constant no earlier call returned.
new_rule(n) == RuleConst(n)

Raise(st, e) == [st |-> st, exc |-> e, val |-> NoExpr]
Return(st, v) == [st |-> st, exc |-> None, val |-> v]

\* Top._assert with bottom's body.
Top_assert_false == z3_And(<<BoolVal(FALSE)>>)

\* Top._assert: z3.Or(True)
Top_assert == z3_Or(<<BoolVal(TRUE)>>)

\* Bottom._assert: z3.And(False)
Bottom_assert == z3_And(<<BoolVal(FALSE)>>)

RECURSIVE _assert(_, _, _)
RECURSIVE assert_each(_, _, _, _)

\* (p._assert(model, string_interner, node_interner) for p in self.preds),
\* consumed left to right by z3.And / z3.Or: the values, or the first exception.
assert_each(st, preds, args, acc) ==
    IF preds = <<>> THEN Return(st, acc)
    ELSE LET r == _assert(st, Head(preds), args)
         IN  IF r.exc # None THEN r
             ELSE assert_each(r.st, Tail(preds), args, Append(acc, r.val))

\* target._assert(*args) in the interpreter state st = [heap, next_rule, rules].
\*   An int has no _assert: AttributeError.
\*   A graph structure takes the graph alone.
\*   Every Predicate class declares _assert(self, model, string_interner,
\*   node_interner): a call with another number of arguments raises TypeError
\*   before the body runs.
_assert(st, target, args) ==
    IF target.kind = "int" THEN Raise(st, "AttributeError")
    ELSE IF target.kind = "Structure"
    THEN IF Len(args) = 1 THEN Return(st, Expr("structure", args))
         ELSE Raise(st, "TypeError")
    ELSE IF Len(args) # 3 THEN Raise(st, "TypeError")
    ELSE
    LET self == st.heap[target.at]
        model == args[1]
    IN  CASE self.cls = "Top" -> Return(st, Top_assert)
          [] self.cls = "Bottom" -> Return(st, Bottom_assert)
          [] self.cls = "And" ->
                LET r == assert_each(st, self.preds, args, <<>>)
                IN  IF r.exc # None THEN r ELSE Return(r.st, z3_And(r.val))
          [] self.cls = "Or" ->
                LET r == assert_each(st, self.preds, args, <<>>)
                IN  IF r.exc # None THEN r ELSE Return(r.st, z3_Or(r.val))
          [] self.cls = "Not" ->
                LET r == _assert(st, self.pred, args)
                IN  IF r.exc # None THEN r ELSE Return(r.st, z3_Not(r.val))
          [] self.cls = "ModelHasRule" ->
                \* self.rule_variable = datatypes.new_rule(), then
                \* z3.Exists([rv], z3.And(model(rv), rule_function(rv)._assert(model)))
                LET rv == new_rule(st.next_rule)
                    st1 == [heap |-> [st.heap EXCEPT ![target.at].rule_variable = rv],
                            next_rule |-> st.next_rule + 1,
                            rules |-> Append(st.rules, rv)]
                    r == _assert(st1, rule_function_apply(self.rule_function, rv), <<model>>)
                IN  IF r.exc # None THEN r
                    ELSE Return(r.st, z3_Exists(rv,
                             z3_And(<<Expr("model", <<rv>>), r.val>>)))
          [] self.cls = "PregraphHas" ->
                _assert(st, self.structure, <<Expr("pregraph", <<self.rule>>)>>)
          [] self.cls = "PostgraphHas" ->
                _assert(st, self.structure, <<Expr("postgraph", <<self.rule>>)>>)

\* What a constructor call leaves behind: the new object on the heap, or the
\* ValueError. `bad` records whether an argument in a predicate position was
\* no Predicate.
Constructed(c, obj, bad) ==
    /\ heap' = Append(heap, obj)
    /\ out' = [op |-> c, root |-> Len(heap) + 1, exc |-> None, val |-> NoExpr,
               rules |-> <<>>, bad |-> bad]
ConstructionFailed(c, bad) ==
    /\ heap' = heap
    /\ out' = [op |-> c, root |-> 0, exc |-> "ValueError", val |-> NoExpr,
               rules |-> <<>>, bad |-> bad]

\* _ensure_predicate over the arguments: TRUE when no call raises.
_ensure_predicate(things) == \A i \in DOMAIN things : isinstance_Predicate(things[i])

Top_init ==
    /\ Len(heap) < MaxObjs
    /\ Constructed("Top", Object("Top", <<>>, NoValue, None, NoExpr, NoValue), FALSE)
    /\ UNCHANGED next_rule
    /\ UNCHANGED evaluator_vars

Bottom_init ==
    /\ Len(heap) < MaxObjs
    /\ Constructed("Bottom", Object("Bottom", <<>>, NoValue, None, NoExpr, NoValue), FALSE)
    /\ UNCHANGED next_rule
    /\ UNCHANGED evaluator_vars

And_init ==
    /\ Len(heap) < MaxObjs
    /\ \E preds \in SeqsUpTo(Arguments(heap), MaxArity) :
         IF _ensure_predicate(preds)
         THEN Constructed("And", Object("And", preds, NoValue, None, NoExpr, NoValue), FALSE)
         ELSE ConstructionFailed("And", TRUE)
    /\ UNCHANGED next_rule
    /\ UNCHANGED evaluator_vars

Or_init ==
    /\ Len(heap) < MaxObjs
    /\ \E preds \in SeqsUpTo(Arguments(heap), MaxArity) :
         IF _ensure_predicate(preds)
         THEN Constructed("Or", Object("Or", preds, NoValue, None, NoExpr, NoValue), FALSE)
         ELSE ConstructionFailed("Or", TRUE)
    /\ UNCHANGED next_rule
    /\ UNCHANGED evaluator_vars

Not_init ==
    /\ Len(heap) < MaxObjs
    /\ \E pred \in Arguments(heap) :
         IF _ensure_predicate(<<pred>>)
         THEN Constructed("Not", Object("Not", <<>>, pred, None, NoExpr, NoValue), FALSE)
         ELSE ConstructionFailed("Not", TRUE)
    /\ UNCHANGED next_rule
    /\ UNCHANGED evaluator_vars

\* ModelHasRule.__init__ stores the function and sets rule_variable to None.
ModelHasRule_init ==
    /\ Len(heap) < MaxObjs
    /\ \E f \in RuleFunctions :
         Constructed("ModelHasRule",
                     Object("ModelHasRule", <<>>, NoValue, f, NoExpr, NoValue), FALSE)
    /\ UNCHANGED next_rule
    /\ UNCHANGED evaluator_vars

\* PregraphHas.__init__ stores rule and structure as given.
PregraphHas_init ==
    /\ Len(heap) < MaxObjs
    /\ \E structure \in Structures(heap) :
         Constructed("PregraphHas",
                     Object("PregraphHas", <<>>, NoValue, None, CallerRule, structure),
                     ~isinstance_Predicate(structure))
    /\ UNCHANGED next_rule
    /\ UNCHANGED evaluator_vars

\* PostgraphHas.__init__ stores rule and structure as given.
PostgraphHas_init ==
    /\ Len(heap) < MaxObjs
    /\ \E structure \in Structures(heap) :
         Constructed("PostgraphHas",
                     Object("PostgraphHas", <<>>, NoValue, None, CallerRule, structure),
                     ~isinstance_Predicate(structure))
    /\ UNCHANGED next_rule
    /\ UNCHANGED evaluator_vars

\* Predicate.get_predicate(model_variable, string_interner, node_interner),
\* called on the root of the tree the caller has built: the newest object.
\* Every object is the newest one right after its construction, and the same
\* root can be lowered again.
Predicate_get_predicate ==
    /\ next_rule <= MaxRules
    /\ \E i \in {Len(heap)} \ {0} :
         LET r == _assert([heap |-> heap, next_rule |-> next_rule, rules |-> <<>>],
                          Ref(i), Context)
         IN  /\ heap' = r.st.heap
             /\ next_rule' = r.st.next_rule
             /\ out' = [op |-> "get_predicate", root |-> i, exc |-> r.exc,
                        val |-> r.val, rules |-> r.st.rules, bad |-> FALSE]
    /\ UNCHANGED evaluator_vars

NextPredicate ==
    \/ Top_init
    \/ Bottom_init
    \/ And_init
    \/ Or_init
    \/ Not_init
    \/ ModelHasRule_init
    \/ PregraphHas_init
    \/ PostgraphHas_init
    \/ Predicate_get_predicate

SpecPredicate == Init /\ [][NextPredicate]_vars

\* The boolean fragment: trees of Top, Bottom, And, Or and Not only.
NextBoolean ==
    \/ Top_init
    \/ Bottom_init
    \/ And_init
    \/ Or_init
    \/ Not_init
    \/ Predicate_get_predicate

SpecBoolean == Init /\ [][NextBoolean]_vars

(***************************************************************************)
(*               Properties of the AtomicPredicate evaluator               *)
(***************************************************************************)

Calls == DOMAIN history
\* exceptions that escape from get_predicate or from Solver.check
AssertOverErrors == {"IndexError", "AttributeError", "NotImplementedError", "Z3Exception"}

\* the leaf classes of the catalogue that define get_predicate (Add and Rem
\* are reserved and the base class is abstract)
ImplementedClasses == {"Top", "Bottom", "Equal", "Labeled"} \cup ModelClasses

\* C1: after any number n >= 1 of check_sat calls (and no other call) on one
\* evaluator, the predicate has been compiled once and added to the solver
\* once, the oracle's check has run once, and every call returned the status
\* the first call returned. Stated for the implemented leaf classes and for
\* runs in which the oracle itself raised nothing.
C1_CheckSatAssertsOnce ==
    (/\ history # <<>>
     /\ cls \in ImplementedClasses
     /\ \A i \in Calls : history[i].op = "check_sat" /\ history[i].exc # "Z3Exception")
    =>  /\ compiles = 1
        /\ Len(solver.assertions) = 1
        /\ solver.checks = 1
        /\ \A i \in Calls : history[i].exc = None /\ history[i].val = history[1].val

\* C2: a get_model call that ends with the status UNSAT or UNKNOWN fails with
\* "model is not available" and returns no binding; a binding is returned only
\* when the status is SAT.
C2_ModelOnlyWhenSat ==
    \A i \in Calls :
        history[i].op = "get_model" =>
            /\ history[i].status \in {"unsat", "unknown"} =>
                   history[i].exc = "ModelNotAvailable" /\ history[i].val = None
            /\ history[i].val = "model" => history[i].status = "sat"

\* C3 as stated: a get_model call made on an evaluator that is still
\* unasserted, no check_sat call having been made before it, fails and returns
\* no binding, whatever the predicate.
C3_GetModelNeedsPriorCheck ==
    \A i \in Calls :
        (/\ history[i].op = "get_model"
         /\ history[i].lazy
         /\ \A j \in 1..(i - 1) : history[j].op # "check_sat")
        => history[i].exc # None /\ history[i].val = None

\* C3 as amended: get_model needs no prior check_sat. Called on an unasserted
\* evaluator it compiles, asserts and checks itself: an error of the compile or
\* of the check propagates with no binding and no status; otherwise a status is
\* determined, a binding is returned when it is SAT, and the call fails with
\* "model is not available" and no binding when it is UNSAT.
C3_GetModelAssertsLazily ==
    \A i \in Calls :
        (history[i].op = "get_model" /\ history[i].lazy) =>
            IF history[i].exc \in AssertOverErrors
            THEN history[i].status = None /\ history[i].val = None
            ELSE /\ history[i].status \in {"sat", "unsat", "unknown"}
                 /\ history[i].status = "sat" => history[i].val = "model"
                 /\ history[i].status = "unsat" =>
                        history[i].exc = "ModelNotAvailable" /\ history[i].val = None

\* C3 witness: the first call on a fresh evaluator is get_model, the predicate
\* is satisfiable, and the call returns a binding.
C3_Witness ==
    /\ Len(history) >= 1
    /\ history[1].op = "get_model"
    /\ history[1].lazy
    /\ history[1].status = "sat"
    /\ history[1].val = "model"

\* C6: constructing a predicate, successfully or not, leaves every solving
\* session untouched: after the constructor, and before any call, no solver
\* has been created or initialised with the graph/action model.
C6_ConstructionTouchesNoSolver ==
    (pc \in {"ready", "dead"} /\ history = <<>>) =>
        ~solver.created /\ ~solver.initialized

NoAssertOverRaised == \A i \in Calls : history[i].exc \notin AssertOverErrors

C10_StateInv ==
    NoAssertOverRaised =>
        /\ _asserted_yet <=> (_status # None)
        /\ history # <<>> =>
              /\ Len(solver.assertions) = 1
              /\ history[1].lazy
              /\ \A i \in Calls : i > 1 => ~history[i].lazy

\* C10: over every sequence of check_sat and get_model calls in which neither
\* the compile nor the oracle's check raises, the formula is added to the
\* solver exactly once, by the first call of either kind, and _asserted_yet
\* holds exactly when _status is not None; once _asserted_yet holds it stays
\* and _status no longer changes.
C10_SingleAssertion ==
    /\ []C10_StateInv
    /\ [][_asserted_yet => (_asserted_yet' /\ _status' = _status)]_vars

\* C10 witness: both kinds of call have been made on an asserted evaluator
\* and nothing raised in the compile or the check.
C10_Witness ==
    /\ NoAssertOverRaised
    /\ _asserted_yet
    /\ \E i, j \in Calls :
          i < j /\ history[i].op = "get_model" /\ history[j].op = "check_sat"

(***************************************************************************)
(*                  Properties of the Predicate algebra                    *)
(***************************************************************************)

Combinators == {"And", "Or", "Not", "PregraphHas", "PostgraphHas"}
Compiled == out.op = "get_predicate"

RECURSIVE IsBooleanTree(_, _)
\* the tree under v is built from Top, Bottom, And, Or and Not only
IsBooleanTree(h, v) ==
    /\ isinstance_Predicate(v)
    /\ v.at \in DOMAIN h
    /\ LET self == h[v.at]
       IN  CASE self.cls \in {"Top", "Bottom"} -> TRUE
             [] self.cls \in {"And", "Or"} ->
                    \A i \in DOMAIN self.preds : IsBooleanTree(h, self.preds[i])
             [] self.cls = "Not" -> IsBooleanTree(h, self.pred)
             [] OTHER -> FALSE

RECURSIVE Eval(_, _)
\* direct boolean evaluation of a boolean tree
Eval(h, v) ==
    LET self == h[v.at]
    IN  CASE self.cls = "Top" -> TRUE
          [] self.cls = "Bottom" -> FALSE
          [] self.cls = "And" -> \A i \in DOMAIN self.preds : Eval(h, self.preds[i])
          [] self.cls = "Or" -> \E i \in DOMAIN self.preds : Eval(h, self.preds[i])
          [] self.cls = "Not" -> ~Eval(h, self.pred)

RECURSIVE Satisfiable(_)
\* satisfiability of a closed propositional z3 formula: its truth value
Satisfiable(f) ==
    CASE f.op = "true" -> TRUE
      [] f.op = "false" -> FALSE
      [] f.op = "and" -> \A i \in DOMAIN f.args : Satisfiable(f.args[i])
      [] f.op = "or" -> \E i \in DOMAIN f.args : Satisfiable(f.args[i])
      [] f.op = "not" -> ~Satisfiable(f.args[1])

\* C4: for every tree built only from Top, Bottom, And, Or and Not (And and Or
\* of any arity, zero included), get_predicate returns a formula, and that
\* formula is satisfiable exactly when direct boolean evaluation of the tree
\* is true.
C4_BooleanTreesCompileFaithfully ==
    (Compiled /\ IsBooleanTree(heap, Ref(out.root))) =>
        /\ out.exc = None
        /\ Satisfiable(out.val) <=> Eval(heap, Ref(out.root))

\* C4 witness: the lowered root is a binary And over a Not and an empty
\* And/Or.
C4_Witness ==
    /\ Compiled
    /\ out.exc = None
    /\ IsBooleanTree(heap, Ref(out.root))
    /\ heap[out.root].cls = "And"
    /\ Len(heap[out.root].preds) = 2
    /\ heap[heap[out.root].preds[1].at].cls = "Not"
    /\ heap[heap[out.root].preds[2].at].cls \in {"And", "Or"}
    /\ heap[heap[out.root].preds[2].at].preds = <<>>

\* C5: every combinator constructor (And, Or, Not, PregraphHas, PostgraphHas)
\* given a non-Predicate in a predicate position fails with an error, so no
\* object on the heap holds a non-Predicate in a predicate position.
C5_CombinatorsRejectNonPredicates ==
    /\ (out.op \in Combinators /\ out.bad) => out.exc = "ValueError"
    /\ \A i \in DOMAIN heap :
          /\ heap[i].cls \in {"And", "Or"} => _ensure_predicate(heap[i].preds)
          /\ heap[i].cls = "Not" => isinstance_Predicate(heap[i].pred)
          /\ heap[i].cls \in {"PregraphHas", "PostgraphHas"} =>
                 isinstance_Predicate(heap[i].structure)

Distinct(seq) == \A i, j \in DOMAIN seq : i # j => seq[i] # seq[j]

\* C7: lowering a ModelHasRule yields the formula
\* exists r: model(r) AND <ruleFn(r) lowered>, r being the Rule variable this
\* lowering has just bound, and the Rule variables bound within one lowering
\* are pairwise distinct.
C7_ModelHasRuleBindsFreshRule ==
    (Compiled /\ heap[out.root].cls = "ModelHasRule") =>
        /\ out.exc = None
        /\ out.val.op = "exists"
        /\ out.val.args[1] = heap[out.root].rule_variable
        /\ out.val.args[2].op = "and"
        /\ out.val.args[2].args[1] = Expr("model", <<out.val.args[1]>>)
        /\ Distinct(out.rules)

\* C8: a get_predicate call leaves every field of every Predicate object as it
\* was.
C8_CompileIsPure ==
    [][out'.op = "get_predicate" => heap' = heap]_vars

RECURSIVE WellTyped(_, _)
\* every predicate position under v holds a Predicate, and every rule function
\* returns one
WellTyped(h, v) ==
    /\ isinstance_Predicate(v)
    /\ v.at \in DOMAIN h
    /\ LET self == h[v.at]
       IN  CASE self.cls \in {"And", "Or"} ->
                    \A i \in DOMAIN self.preds : WellTyped(h, self.preds[i])
             [] self.cls = "Not" -> WellTyped(h, self.pred)
             [] self.cls = "ModelHasRule" -> self.rule_function # "lambda r: s"
             [] self.cls \in {"PregraphHas", "PostgraphHas"} ->
                    WellTyped(h, self.structure)
             [] OTHER -> TRUE

\* C9: lowering a constructed tree of Predicates with the complete binding
\* context (model, string interner, node interner) raises nothing and yields a
\* formula, ModelHasRule, PregraphHas and PostgraphHas included.
C9_CompileNeverFails ==
    (Compiled /\ WellTyped(heap, Ref(out.root))) =>
        out.exc = None /\ out.val # NoExpr

====
